---- MODULE Spec2Model ----
(***************************************************************************)
(* kubeadm "token" command (cmd/kubeadm/app/cmd/token.go): the create,     *)
(* list and delete operations on bootstrap tokens, which are Secrets of    *)
(* type bootstrap.kubernetes.io/token named bootstrap-token-<ID> in the    *)
(* kube-system namespace of the API server.                                *)
(*                                                                         *)
(* Strings are TLA+ strings, read with Len, SubSeq and \o.  Time is in     *)
(* whole hours since 2019-01-01T00:00:00Z.                                 *)
(***************************************************************************)
EXTENDS Integers, Sequences, FiniteSets, TLC

\* ------------------------------------------------------------------ bounds
\* Longest argument list of "token delete".
MaxArgs == 2
\* Last hour the clock reaches.
MaxTime == 1

\* --------------------------------------------------------------- constants
\* "[a-z0-9]{6}.[a-z0-9]{16}": the lengths of the token ID and the token secret.
IDLen == 6
SecretLen == 16
\* tabwriter.NewWriter(out, 10, 4, 3, ' ', 0): minwidth and padding.
TabMinWidth == 10
TabPadding == 3

\* ----------------------------------------------------------------- strings
Char(s, i) == SubSeq(s, i, i)

LowerAlnum ==
  { "a", "b", "c", "d", "e", "f", "g", "h", "i", "j", "k", "l", "m",
    "n", "o", "p", "q", "r", "s", "t", "u", "v", "w", "x", "y", "z",
    "0", "1", "2", "3", "4", "5", "6", "7", "8", "9" }

IsLowerAlnum(s) == \A i \in 1..Len(s) : Char(s, i) \in LowerAlnum

HasPrefix(s, p) == Len(s) >= Len(p) /\ SubSeq(s, 1, Len(p)) = p

\* strings.Contains
Contains(s, sub) ==
  \E i \in 1..(Len(s) - Len(sub) + 1) : SubSeq(s, i, i + Len(sub) - 1) = sub

\* strings.Join
RECURSIVE Join(_, _)
Join(elems, sep) ==
  IF Len(elems) = 0 THEN ""
  ELSE IF Len(elems) = 1 THEN elems[1]
  ELSE elems[1] \o sep \o Join(Tail(elems), sep)

\* where sep occurs in s
SepAt(s, sep) == {i \in 1..(Len(s) - Len(sep) + 1) : SubSeq(s, i, i + Len(sep) - 1) = sep}

\* strings.Split, for a separator whose occurrences cannot overlap
Split(s, sep) ==
  LET at == SepAt(s, sep)
      n == Cardinality(at)
      Nth(k) == IF k = 0 THEN 1 - Len(sep)
                ELSE IF k = n + 1 THEN Len(s) + 1
                ELSE CHOOSE p \in at : Cardinality({q \in at : q < p}) = k - 1
  IN  [k \in 1..(n + 1) |-> SubSeq(s, Nth(k - 1) + Len(sep), Nth(k) - 1)]

\* strings.ReplaceAll, for an old whose occurrences cannot overlap
ReplaceAll(s, old, new) == Join(Split(s, old), new)

DigitChars == <<"0", "1", "2", "3", "4", "5", "6", "7", "8", "9">>

\* fmt's %d of a natural number
RECURSIVE Itoa(_)
Itoa(n) == IF n < 10 THEN DigitChars[n + 1] ELSE Itoa(n \div 10) \o DigitChars[(n % 10) + 1]

TwoDigits(n) == DigitChars[((n \div 10) % 10) + 1] \o DigitChars[(n % 10) + 1]

IsDigit(c) == \E d \in 1..10 : DigitChars[d] = c

DigitValue(c) == (CHOOSE d \in 1..10 : DigitChars[d] = c) - 1

\* fmt's %q of a string of plain characters
Quote(s) == "\"" \o s \o "\""

RECURSIVE Spaces(_)
Spaces(n) == IF n <= 0 THEN "" ELSE " " \o Spaces(n - 1)

\* ------------------------------------------------------------------ tokens
NoError == "nil"

\* bootstraputil.IsValidBootstrapTokenID: ^[a-z0-9]{6}$
IsValidBootstrapTokenID(s) == Len(s) = IDLen /\ IsLowerAlnum(s)

\* kubeadmapiv1beta2.NewBootstrapTokenString: ^([a-z0-9]{6})\.([a-z0-9]{16})$
NewBootstrapTokenString(s) ==
  IF /\ Len(s) = IDLen + 1 + SecretLen
     /\ IsLowerAlnum(SubSeq(s, 1, IDLen))
     /\ Char(s, IDLen + 1) = "."
     /\ IsLowerAlnum(SubSeq(s, IDLen + 2, Len(s)))
  THEN [err |-> NoError, ID |-> SubSeq(s, 1, IDLen), Secret |-> SubSeq(s, IDLen + 2, Len(s))]
  ELSE [err |-> "InvalidFormat", ID |-> "", Secret |-> ""]

\* BootstrapTokenString.String
TokenString(t) == t.ID \o "." \o t.Secret

\* bootstraputil.BootstrapTokenSecretName
BootstrapTokenSecretName(tokenID) == "bootstrap-token-" \o tokenID

SecretTypeBootstrapToken == "bootstrap.kubernetes.io/token"

NamespaceSystem == "kube-system"

UsageAuthentication == "authentication"

UsageSigning == "signing"

\* the usages in the order sort.Strings gives them
KnownUsages == <<UsageAuthentication, UsageSigning>>

BootstrapGroupPrefix == "system:bootstrappers:"

\* a *Duration or *Time that is nil
Unset == -1

\* ------------------------------------------------------------------- time
\* Time.Format(time.RFC3339) of an hour count
FormatRFC3339(t) ==
  "2019-01-" \o TwoDigits(1 + (t \div 24)) \o "T" \o TwoDigits(t % 24) \o ":00:00Z"

\* time.Parse(time.RFC3339, s)
ParseRFC3339(s) ==
  IF /\ Len(s) = 20
     /\ SubSeq(s, 1, 8) = "2019-01-"
     /\ IsDigit(Char(s, 9)) /\ IsDigit(Char(s, 10))
     /\ Char(s, 11) = "T"
     /\ IsDigit(Char(s, 12)) /\ IsDigit(Char(s, 13))
     /\ SubSeq(s, 14, 20) = ":00:00Z"
     /\ 10 * DigitValue(Char(s, 9)) + DigitValue(Char(s, 10)) >= 1
     /\ 10 * DigitValue(Char(s, 12)) + DigitValue(Char(s, 13)) < 24
  THEN [err |-> NoError,
        t |-> 24 * (10 * DigitValue(Char(s, 9)) + DigitValue(Char(s, 10)) - 1)
              + 10 * DigitValue(Char(s, 12)) + DigitValue(Char(s, 13))]
  ELSE [err |-> "MalformedRecord", t |-> Unset]

\* duration.ShortHumanDuration of a number of hours
ShortHumanDuration(d) ==
  IF d < 0 THEN "<invalid>"
  ELSE IF d = 0 THEN "0s"
  ELSE IF d < 24 THEN Itoa(d) \o "h"
  ELSE Itoa(d \div 24) \o "d"

\* -------------------------------------------------------- bootstrap tokens
\* a nil *BootstrapTokenString
NoToken == [ID |-> "", Secret |-> ""]

\* the Secret's data key of a usage
UsageKey(u) == "usage-bootstrap-" \o u

HasKey(data, k) == k \in DOMAIN data

\* BootstrapToken.ToSecret: the Secret that stores a token.  An empty
\* description, no expiry, no usage and no group leave their keys out; a TTL
\* without Expires becomes the absolute time now + TTL.
ToSecret(bt, now) ==
  [ name |-> BootstrapTokenSecretName(bt.Token.ID),
    namespace |-> NamespaceSystem,
    type |-> SecretTypeBootstrapToken,
    data |->
      ("token-id" :> bt.Token.ID) @@ ("token-secret" :> bt.Token.Secret)
      @@ [k \in (IF Len(bt.Description) > 0 THEN {"description"} ELSE {}) |-> bt.Description]
      @@ [k \in (IF bt.Expires # Unset \/ bt.TTL # Unset THEN {"expiration"} ELSE {}) |->
            FormatRFC3339(IF bt.Expires # Unset THEN bt.Expires ELSE now + bt.TTL)]
      @@ [k \in {UsageKey(bt.Usages[i]) : i \in DOMAIN bt.Usages} |-> "true"]
      @@ [k \in (IF Len(bt.Groups) > 0 THEN {"auth-extra-groups"} ELSE {}) |->
            Join(bt.Groups, ",")] ]

\* kubeadmapi.BootstrapTokenFromSecret: the token a Secret stores, or the
\* error MalformedRecord when the Secret is not of the bootstrap token type,
\* has no ID or Secret, or holds an ID and Secret that do not parse.
BootstrapTokenFromSecret(secret) ==
  LET data == secret.data
      bad == [err |-> "MalformedRecord", subject |-> secret.name, token |-> NoToken]
      id == IF HasKey(data, "token-id") THEN data["token-id"] ELSE ""
      sec == IF HasKey(data, "token-secret") THEN data["token-secret"] ELSE ""
      bts == NewBootstrapTokenString(id \o "." \o sec)
      exp == IF HasKey(data, "expiration")
             THEN ParseRFC3339(data["expiration"])
             ELSE [err |-> NoError, t |-> Unset]
  IN IF secret.type # SecretTypeBootstrapToken THEN bad
     ELSE IF Len(id) = 0 \/ Len(sec) = 0 THEN bad
     ELSE IF bts.err # NoError THEN bad
     ELSE IF exp.err # NoError THEN bad
     ELSE [ err |-> NoError, subject |-> secret.name,
            token |->
              [ Token |-> [ID |-> bts.ID, Secret |-> bts.Secret],
                Description |-> IF HasKey(data, "description") THEN data["description"] ELSE "",
                TTL |-> Unset,
                Expires |-> exp.t,
                Usages |-> SelectSeq(KnownUsages,
                             LAMBDA u : HasKey(data, UsageKey(u)) /\ data[UsageKey(u)] = "true"),
                Groups |-> IF HasKey(data, "auth-extra-groups")
                                /\ Len(data["auth-extra-groups"]) > 0
                           THEN Split(data["auth-extra-groups"], ",")
                           ELSE <<>> ] ]

SeqToSet(q) == {q[i] : i \in DOMAIN q}

\* a group name of the form system:bootstrappers:<suffix>
ValidateBootstrapGroupName(g) ==
  HasPrefix(g, BootstrapGroupPrefix) /\ Len(g) > Len(BootstrapGroupPrefix)

\* validation of a token to create: the token has the two-part format, every
\* usage is known, groups need the authentication usage and the group name
\* pattern, and an expiry lies strictly in the future.
ValidateBootstrapToken(bt, now) ==
  IF /\ NewBootstrapTokenString(TokenString(bt.Token)).err = NoError
     /\ SeqToSet(bt.Usages) \subseteq SeqToSet(KnownUsages)
     /\ (Len(bt.Groups) > 0 => UsageAuthentication \in SeqToSet(bt.Usages))
     /\ \A i \in DOMAIN bt.Groups : ValidateBootstrapGroupName(bt.Groups[i])
     /\ (bt.Expires # Unset => bt.Expires > now)
  THEN NoError
  ELSE "ValidationError"

\* configutil.LoadOrDefaultInitConfiguration, for the one bootstrap token of
\* the configuration: a token that is not given is generated (gen is the
\* token the random generator yields), and the result is validated.
LoadOrDefaultInitConfiguration(initCfg, gen, now) ==
  LET bt == [initCfg EXCEPT !.Token = IF initCfg.Token = NoToken THEN gen ELSE initCfg.Token]
  IN  [err |-> ValidateBootstrapToken(bt, now), BootstrapTokens |-> <<bt>>]

\* ------------------------------------------------------------- the store
\* The Secrets of the API server: a set of Secrets, no two of one name.
NameExists(st, name) == \E r \in st : r.name = name

\* Secrets(ns).Create
StoreCreate(st, secret, fails) ==
  IF fails THEN [err |-> "CreateFailed", store |-> st]
  ELSE IF NameExists(st, secret.name) THEN [err |-> "AlreadyExists", store |-> st]
  ELSE [err |-> NoError, store |-> st \cup {secret}]

\* Secrets(ns).Delete
StoreDelete(st, name, fails) ==
  IF fails THEN [err |-> "DeleteFailed", store |-> st]
  ELSE IF ~NameExists(st, name) THEN [err |-> "NotFound", store |-> st]
  ELSE [err |-> NoError, store |-> {r \in st : r.name # name}]

\* Secrets(ns).List with the field selector type=<type>: the matching
\* Secrets, in any order
StoreList(st, type) ==
  LET sel == {r \in st : r.type = type}
      n == Cardinality(sel)
  IN  {q \in [1..n -> sel] : \A i, j \in 1..n : q[i] = q[j] => i = j}

\* a call the command made to the store: for the item-th argument
Call(verb, name, item, err) == [verb |-> verb, name |-> name, item |-> item, err |-> err]

\* tokenphase.CreateNewTokens: creates the Secret of the token, and fails
\* when a Secret of the token's name exists.
CreateNewTokens(st, tokens, now, fails) ==
  LET secret == ToSecret(tokens[1], now)
      r == StoreCreate(st, secret, fails)
  IN  [ err |-> r.err, store |-> r.store,
        calls |-> <<Call("create", secret.name, 1, r.err)>> ]

\* ------------------------------------------------------------ the output
Max(a, b) == IF a > b THEN a ELSE b

\* the widest cell of column c over the lines, padding included
RECURSIVE ColumnWidth(_, _, _)
ColumnWidth(cells, c, i) ==
  IF i > Len(cells) THEN TabMinWidth
  ELSE Max(IF c < Len(cells[i]) THEN Len(cells[i][c]) + TabPadding ELSE 0,
           ColumnWidth(cells, c, i + 1))

\* one line of the table: every tab-terminated cell padded with blanks to its
\* column's width, the last cell as it is
RECURSIVE TabLine(_, _, _)
TabLine(cells, line, c) ==
  IF c >= Len(cells[line]) THEN cells[line][c]
  ELSE cells[line][c]
       \o Spaces(ColumnWidth(cells, c, 1) - Len(cells[line][c]))
       \o TabLine(cells, line, c + 1)

\* tabwriter.NewWriter(out, 10, 4, 3, ' ', 0), written line by line and
\* flushed: the lines as they reach out
TabWrite(lines) ==
  LET cells == [i \in DOMAIN lines |-> Split(lines[i], "\t")]
  IN  [i \in DOMAIN lines |-> TabLine(cells, i, 1)]

ListHeader == "TOKEN\tTTL\tEXPIRES\tUSAGES\tDESCRIPTION\tEXTRA GROUPS"

\* humanReadableBootstrapToken with the description written before the usages
humanReadableDescriptionFirst(token, now) ==
  LET description == IF Len(token.Description) = 0 THEN "<none>" ELSE token.Description
      ttl == IF token.Expires # Unset
             THEN ShortHumanDuration(token.Expires - now)
             ELSE "<forever>"
      expires == IF token.Expires # Unset THEN FormatRFC3339(token.Expires) ELSE "<never>"
      usagesJoined == Join(token.Usages, ",")
      usagesString == IF Len(usagesJoined) = 0 THEN "<none>" ELSE usagesJoined
      groupsJoined == Join(token.Groups, ",")
      groupsString == IF Len(groupsJoined) = 0 THEN "<none>" ELSE groupsJoined
  IN  TokenString(token.Token) \o "\t" \o ttl \o "\t" \o expires \o "\t"
        \o description \o "\t" \o usagesString \o "\t" \o groupsString

humanReadableBootstrapToken(token, now) ==
  LET description == IF Len(token.Description) = 0 THEN "<none>" ELSE token.Description
      ttl == IF token.Expires # Unset
             THEN ShortHumanDuration(token.Expires - now)
             ELSE "<forever>"
      expires == IF token.Expires # Unset THEN FormatRFC3339(token.Expires) ELSE "<never>"
      usagesJoined == Join(token.Usages, ",")
      usagesString == IF Len(usagesJoined) = 0 THEN "<none>" ELSE usagesJoined
      groupsJoined == Join(token.Groups, ",")
      groupsString == IF Len(groupsJoined) = 0 THEN "<none>" ELSE groupsJoined
  IN  TokenString(token.Token) \o "\t" \o ttl \o "\t" \o expires \o "\t"
        \o usagesString \o "\t" \o description \o "\t" \o groupsString

\* an error value: its kind and what it is about; Nil is no error
Err(kind, subject) == [kind |-> kind, subject |-> subject]

Nil == Err(NoError, "")

\* ---------------------------------------------------------- token create
\* cmdutil.GetJoinWorkerCommand: the join command of a token, or an error
GetJoinWorkerCommand(token, fails) ==
  IF fails THEN [err |-> "JoinCommandFailed", cmd |-> ""]
  ELSE [err |-> NoError,
        cmd |-> "kubeadm join 10.0.0.1:6443 --token " \o token
                \o " \\\n\t--discovery-token-ca-cert-hash sha256:0"]

\* RunCreateToken without the return on the error of CreateNewTokens
RunCreateTokenIgnoresCreateError(st, initCfg, gen, printJoinCommand, createFails, joinFails, now) ==
  LET internalcfg == LoadOrDefaultInitConfiguration(initCfg, gen, now)
      token == internalcfg.BootstrapTokens[1].Token
      created == CreateNewTokens(st, internalcfg.BootstrapTokens, now, createFails)
  IN  IF internalcfg.err # NoError
      THEN [ ret |-> Err(internalcfg.err, ""), store |-> st, out |-> <<>>, calls |-> <<>> ]
      ELSE [ ret |-> Nil, store |-> created.store, out |-> <<TokenString(token)>>,
             calls |-> created.calls ]

\* RunCreateToken without the return on the error of LoadOrDefaultInitConfiguration
RunCreateTokenUnvalidated(st, initCfg, gen, printJoinCommand, createFails, joinFails, now) ==
  LET internalcfg == LoadOrDefaultInitConfiguration(initCfg, gen, now)
      token == internalcfg.BootstrapTokens[1].Token
      created == CreateNewTokens(st, internalcfg.BootstrapTokens, now, createFails)
  IN  IF created.err # NoError
      THEN [ ret |-> Err(created.err, token.ID), store |-> created.store,
             out |-> <<>>, calls |-> created.calls ]
      ELSE [ ret |-> Nil, store |-> created.store, out |-> <<TokenString(token)>>,
             calls |-> created.calls ]

\* RunCreateToken with the configuration initCfg of the flags.  gen is the
\* token the generator yields, createFails and joinFails say whether the
\* store's Create and the building of the join command fail.
RunCreateToken(st, initCfg, gen, printJoinCommand, createFails, joinFails, now) ==
  LET internalcfg == LoadOrDefaultInitConfiguration(initCfg, gen, now)
      token == internalcfg.BootstrapTokens[1].Token
      created == CreateNewTokens(st, internalcfg.BootstrapTokens, now, createFails)
      join == GetJoinWorkerCommand(TokenString(token), joinFails)
  IN  IF internalcfg.err # NoError
      THEN [ ret |-> Err(internalcfg.err, ""), store |-> st, out |-> <<>>, calls |-> <<>> ]
      ELSE IF created.err # NoError
      THEN [ ret |-> Err(created.err, token.ID), store |-> created.store,
             out |-> <<>>, calls |-> created.calls ]
      ELSE IF printJoinCommand /\ join.err # NoError
      THEN [ ret |-> Err(join.err, ""), store |-> created.store,
             out |-> <<>>, calls |-> created.calls ]
      ELSE [ ret |-> Nil, store |-> created.store,
             out |-> IF printJoinCommand
                     THEN <<ReplaceAll(ReplaceAll(join.cmd, "\\\n", ""), "\t", "")>>
                     ELSE <<TokenString(token)>>,
             calls |-> created.calls ]

\* ------------------------------------------------------------ token list
\* the loop of RunListTokens over the listed Secrets: the line each token
\* is rendered as and, on errW, the error of each Secret that is no token
RECURSIVE ListFrom(_, _, _)
ListFrom(secrets, i, now) ==
  IF i > Len(secrets) THEN [lines |-> <<>>, errW |-> <<>>]
  ELSE LET token == BootstrapTokenFromSecret(secrets[i])
           rest == ListFrom(secrets, i + 1, now)
       IN  IF token.err # NoError
           THEN [ lines |-> rest.lines,
                  errW |-> <<token.err \o ": " \o token.subject>> \o rest.errW ]
           ELSE [ lines |-> <<humanReadableBootstrapToken(token.token, now)>> \o rest.lines,
                  errW |-> rest.errW ]

\* the loop of RunListTokens with a return in place of the continue
RECURSIVE ListFromAbort(_, _, _)
ListFromAbort(secrets, i, now) ==
  IF i > Len(secrets) THEN [lines |-> <<>>, errW |-> <<>>, ret |-> Nil]
  ELSE LET token == BootstrapTokenFromSecret(secrets[i])
           rest == ListFromAbort(secrets, i + 1, now)
       IN  IF token.err # NoError
           THEN [ lines |-> <<>>, errW |-> <<token.err \o ": " \o token.subject>>,
                  ret |-> Err(token.err, token.subject) ]
           ELSE [ lines |-> <<humanReadableBootstrapToken(token.token, now)>> \o rest.lines,
                  errW |-> rest.errW, ret |-> rest.ret ]

RunListTokensAbort(secrets, listFails, now) ==
  LET loop == ListFromAbort(secrets, 1, now)
  IN  IF listFails
      THEN [ ret |-> Err("ListFailed", ""), out |-> <<>>, errW |-> <<>>,
             calls |-> <<Call("list", SecretTypeBootstrapToken, 0, "ListFailed")>> ]
      ELSE [ ret |-> loop.ret, out |-> TabWrite(<<ListHeader>> \o loop.lines),
             errW |-> loop.errW,
             calls |-> <<Call("list", SecretTypeBootstrapToken, 0, NoError)>> ]

\* RunListTokens; secrets is what the store's List answers, listFails says
\* whether the List call fails
RunListTokens(secrets, listFails, now) ==
  LET loop == ListFrom(secrets, 1, now)
  IN  IF listFails
      THEN [ ret |-> Err("ListFailed", ""), out |-> <<>>, errW |-> <<>>,
             calls |-> <<Call("list", SecretTypeBootstrapToken, 0, "ListFailed")>> ]
      ELSE [ ret |-> Nil, out |-> TabWrite(<<ListHeader>> \o loop.lines), errW |-> loop.errW,
             calls |-> <<Call("list", SecretTypeBootstrapToken, 0, NoError)>> ]

\* ---------------------------------------------------------- token delete
DeletedLine(tokenID) == "bootstrap token " \o Quote(tokenID) \o " deleted"

\* DeleteOne that writes the "deleted" line whatever the Delete call answers
DeleteOneAlwaysReports(st, tokenIDOrToken, item, deleteFails) ==
  LET isID == IsValidBootstrapTokenID(tokenIDOrToken)
      bts == NewBootstrapTokenString(tokenIDOrToken)
      tokenID == IF isID THEN tokenIDOrToken ELSE bts.ID
      tokenSecretName == BootstrapTokenSecretName(tokenID)
      deleted == StoreDelete(st, tokenSecretName, deleteFails)
  IN  IF ~isID /\ bts.err # NoError
      THEN [ err |-> Err("InvalidFormat", tokenIDOrToken), store |-> st,
             out |-> <<>>, calls |-> <<>> ]
      ELSE [ err |-> Nil, store |-> deleted.store, out |-> <<DeletedLine(tokenID)>>,
             calls |-> <<Call("delete", tokenSecretName, item, deleted.err)>> ]

\* DeleteOne that goes on to the Delete call with an argument that did not parse
DeleteOneUnparsed(st, tokenIDOrToken, item, deleteFails) ==
  LET isID == IsValidBootstrapTokenID(tokenIDOrToken)
      bts == NewBootstrapTokenString(tokenIDOrToken)
      tokenID == IF isID \/ bts.err # NoError THEN tokenIDOrToken ELSE bts.ID
      tokenSecretName == BootstrapTokenSecretName(tokenID)
      deleted == StoreDelete(st, tokenSecretName, deleteFails)
  IN  IF deleted.err # NoError
      THEN [ err |-> Err(deleted.err, tokenID), store |-> deleted.store, out |-> <<>>,
             calls |-> <<Call("delete", tokenSecretName, item, deleted.err)>> ]
      ELSE [ err |-> Nil, store |-> deleted.store, out |-> <<DeletedLine(tokenID)>>,
             calls |-> <<Call("delete", tokenSecretName, item, NoError)>> ]

\* DeleteOne that keeps the whole argument as the token ID
DeleteOneWholeArgument(st, tokenIDOrToken, item, deleteFails) ==
  LET isID == IsValidBootstrapTokenID(tokenIDOrToken)
      bts == NewBootstrapTokenString(tokenIDOrToken)
      tokenID == tokenIDOrToken
      tokenSecretName == BootstrapTokenSecretName(tokenID)
      deleted == StoreDelete(st, tokenSecretName, deleteFails)
  IN  IF ~isID /\ bts.err # NoError
      THEN [ err |-> Err("InvalidFormat", tokenIDOrToken), store |-> st,
             out |-> <<>>, calls |-> <<>> ]
      ELSE IF deleted.err # NoError
      THEN [ err |-> Err(deleted.err, tokenID), store |-> deleted.store, out |-> <<>>,
             calls |-> <<Call("delete", tokenSecretName, item, deleted.err)>> ]
      ELSE [ err |-> Nil, store |-> deleted.store, out |-> <<DeletedLine(tokenID)>>,
             calls |-> <<Call("delete", tokenSecretName, item, NoError)>> ]

\* one round of the loop of RunDeleteTokens, for the item-th argument
DeleteOne(st, tokenIDOrToken, item, deleteFails) ==
  LET isID == IsValidBootstrapTokenID(tokenIDOrToken)
      bts == NewBootstrapTokenString(tokenIDOrToken)
      tokenID == IF isID THEN tokenIDOrToken ELSE bts.ID
      tokenSecretName == BootstrapTokenSecretName(tokenID)
      deleted == StoreDelete(st, tokenSecretName, deleteFails)
  IN  IF ~isID /\ bts.err # NoError
      THEN [ err |-> Err("InvalidFormat", tokenIDOrToken), store |-> st,
             out |-> <<>>, calls |-> <<>> ]
      ELSE IF deleted.err # NoError
      THEN [ err |-> Err(deleted.err, tokenID), store |-> deleted.store, out |-> <<>>,
             calls |-> <<Call("delete", tokenSecretName, item, deleted.err)>> ]
      ELSE [ err |-> Nil, store |-> deleted.store, out |-> <<DeletedLine(tokenID)>>,
             calls |-> <<Call("delete", tokenSecretName, item, NoError)>> ]

\* what an argument came to
Item(input, err) == [input |-> input, err |-> err.kind]

\* the loop of RunDeleteTokens from the i-th argument on: the first argument
\* that fails ends the command with its error
RECURSIVE DeleteFrom(_, _, _, _)
DeleteFrom(st, tokenIDsOrTokens, failAt, i) ==
  IF i > Len(tokenIDsOrTokens)
  THEN [ret |-> Nil, store |-> st, out |-> <<>>, calls |-> <<>>, items |-> <<>>]
  ELSE LET one == DeleteOne(st, tokenIDsOrTokens[i], i, i \in failAt)
           rest == DeleteFrom(one.store, tokenIDsOrTokens, failAt, i + 1)
       IN  IF one.err # Nil
           THEN [ ret |-> one.err, store |-> one.store, out |-> one.out,
                  calls |-> one.calls, items |-> <<Item(tokenIDsOrTokens[i], one.err)>> ]
           ELSE [ ret |-> rest.ret, store |-> rest.store, out |-> one.out \o rest.out,
                  calls |-> one.calls \o rest.calls,
                  items |-> <<Item(tokenIDsOrTokens[i], one.err)>> \o rest.items ]

\* the loop of RunDeleteTokens going on after an argument that failed, and
\* returning the first error at the end
RECURSIVE DeleteFromContinue(_, _, _, _)
DeleteFromContinue(st, tokenIDsOrTokens, failAt, i) ==
  IF i > Len(tokenIDsOrTokens)
  THEN [ret |-> Nil, store |-> st, out |-> <<>>, calls |-> <<>>, items |-> <<>>]
  ELSE LET one == DeleteOne(st, tokenIDsOrTokens[i], i, i \in failAt)
           rest == DeleteFromContinue(one.store, tokenIDsOrTokens, failAt, i + 1)
       IN  [ ret |-> IF one.err # Nil THEN one.err ELSE rest.ret,
             store |-> rest.store, out |-> one.out \o rest.out,
             calls |-> one.calls \o rest.calls,
             items |-> <<Item(tokenIDsOrTokens[i], one.err)>> \o rest.items ]

RunDeleteTokensContinue(st, tokenIDsOrTokens, failAt) ==
  DeleteFromContinue(st, tokenIDsOrTokens, failAt, 1)

\* the loop of RunDeleteTokens passing over an argument that does not parse
RECURSIVE DeleteFromSkipInvalid(_, _, _, _)
DeleteFromSkipInvalid(st, tokenIDsOrTokens, failAt, i) ==
  IF i > Len(tokenIDsOrTokens)
  THEN [ret |-> Nil, store |-> st, out |-> <<>>, calls |-> <<>>, items |-> <<>>]
  ELSE LET one == DeleteOne(st, tokenIDsOrTokens[i], i, i \in failAt)
           rest == DeleteFromSkipInvalid(one.store, tokenIDsOrTokens, failAt, i + 1)
       IN  IF one.err # Nil /\ one.err.kind # "InvalidFormat"
           THEN [ ret |-> one.err, store |-> one.store, out |-> one.out,
                  calls |-> one.calls, items |-> <<Item(tokenIDsOrTokens[i], one.err)>> ]
           ELSE [ ret |-> rest.ret, store |-> rest.store, out |-> one.out \o rest.out,
                  calls |-> one.calls \o rest.calls,
                  items |-> <<Item(tokenIDsOrTokens[i], one.err)>> \o rest.items ]

RunDeleteTokensSkipInvalid(st, tokenIDsOrTokens, failAt) ==
  DeleteFromSkipInvalid(st, tokenIDsOrTokens, failAt, 1)

\* RunDeleteTokens; failAt holds the arguments whose Delete call the store
\* fails for a reason of its own
RunDeleteTokens(st, tokenIDsOrTokens, failAt) == DeleteFrom(st, tokenIDsOrTokens, failAt, 1)

\* ------------------------------------------------------------ the inputs
TokA1 == [ID |-> "abcdef", Secret |-> "0123456789abcdef"]

TokA2 == [ID |-> "abcdef", Secret |-> "fedcba9876543210"]

TokB == [ID |-> "valid1", Secret |-> "aaaaaaaaaaaaaaaa"]

GroupNodes == "system:bootstrappers:nodes"

GroupWorkers == "system:bootstrappers:workers"

\* a token of the flags: no TTL, no description, no usage, no group
BareToken(token) ==
  [ Token |-> token, Description |-> "", TTL |-> Unset, Expires |-> Unset,
    Usages |-> <<>>, Groups |-> <<>> ]

\* a token of the flags with everything set
FullToken(token) ==
  [ Token |-> token, Description |-> "node join", TTL |-> 2, Expires |-> Unset,
    Usages |-> <<UsageSigning, UsageAuthentication>>, Groups |-> <<GroupNodes>> ]

\* a token of the flags with a group and no authentication usage
GroupsOnlyToken(token) ==
  [ Token |-> token, Description |-> "", TTL |-> Unset, Expires |-> Unset,
    Usages |-> <<UsageSigning>>, Groups |-> <<GroupNodes>> ]

\* the configurations "token create" is run with
CreateConfigs ==
  UNION { {BareToken(t), FullToken(t), GroupsOnlyToken(t)} : t \in {NoToken, TokA1, TokA2} }

\* the arguments "token delete" is run with
DeleteArgs ==
  { "abcdef", "abcdef.0123456789abcdef", "abcdef.fedcba9876543210", "valid1",
    "bad-format", "validid1" }

DeleteArgLists == UNION { [1..n -> DeleteArgs] : n \in 1..MaxArgs }

\* the tokens FormatHuman is applied to
FormatTokens ==
  [ Token : {TokA1, TokB}, Description : {"", "node join"}, TTL : {Unset},
    Expires : {Unset} \cup 0..(MaxTime + 1),
    Usages : {<<>>, <<UsageSigning>>, <<UsageAuthentication, UsageSigning>>},
    Groups : {<<>>, <<GroupNodes>>, <<GroupNodes, GroupWorkers>>} ]

\* a Secret of the token type that holds no token secret
BrokenSecret ==
  [ name |-> BootstrapTokenSecretName("broken"), namespace |-> NamespaceSystem,
    type |-> SecretTypeBootstrapToken, data |-> ("token-id" :> "broken") ]

\* a Secret of another type
OpaqueSecret ==
  [ name |-> "registry-credentials", namespace |-> NamespaceSystem,
    type |-> "Opaque", data |-> ("password" :> "hunter2") ]

\* the Secrets of the token type the server may hold when the first command runs
InitialSecrets == {ToSecret(BareToken(TokA1), 0), BrokenSecret}

\* ------------------------------------------------------------- the state
VARIABLES
  store,   \* the Secrets of the server
  now,     \* the clock
  pc,      \* "idle": no command runs; "done": a command has returned
  op,      \* the command that returned: "create", "list", "delete", "format"
  args,    \* its arguments
  store0,  \* the Secrets of the server when it was called
  out,     \* the lines it wrote to out
  errW,    \* what it wrote to errW
  ret,     \* the error it returned, or Nil
  calls,   \* the calls it made to the store
  items    \* "delete": what each argument it came to ended as

vars == <<store, now, pc, op, args, store0, out, errW, ret, calls, items>>

Init ==
  /\ store \in {secrets \cup {OpaqueSecret} : secrets \in SUBSET InitialSecrets}
  /\ now = 0
  /\ pc = "idle"
  /\ op = "none"
  /\ args = <<>>
  /\ store0 = store
  /\ out = <<>>
  /\ errW = <<>>
  /\ ret = Nil
  /\ calls = <<>>
  /\ items = <<>>

\* kubeadm token create [token] [--print-join-command]
CreateToken ==
  /\ pc = "idle"
  /\ \E initCfg \in CreateConfigs, printJoinCommand \in BOOLEAN,
        createFails \in BOOLEAN, joinFails \in BOOLEAN :
       LET r == RunCreateToken(store, initCfg, TokB, printJoinCommand,
                               createFails, joinFails, now)
       IN  /\ args' = [ initCfg |-> initCfg, gen |-> TokB,
                        printJoinCommand |-> printJoinCommand ]
           /\ store' = r.store
           /\ out' = r.out
           /\ ret' = r.ret
           /\ calls' = r.calls
  /\ pc' = "done"
  /\ op' = "create"
  /\ store0' = store
  /\ errW' = <<>>
  /\ items' = <<>>
  /\ UNCHANGED now

\* kubeadm token list
ListTokens ==
  /\ pc = "idle"
  /\ \E secrets \in StoreList(store, SecretTypeBootstrapToken), listFails \in BOOLEAN :
       LET r == RunListTokens(secrets, listFails, now)
       IN  /\ args' = IF listFails THEN <<>> ELSE secrets
           /\ out' = r.out
           /\ errW' = r.errW
           /\ ret' = r.ret
           /\ calls' = r.calls
  /\ pc' = "done"
  /\ op' = "list"
  /\ store0' = store
  /\ items' = <<>>
  /\ UNCHANGED <<store, now>>

\* kubeadm token delete [token-value] ...
DeleteTokens ==
  /\ pc = "idle"
  /\ \E tokenIDsOrTokens \in DeleteArgLists :
       \E failAt \in SUBSET (1..Len(tokenIDsOrTokens)) :
         LET r == RunDeleteTokens(store, tokenIDsOrTokens, failAt)
         IN  /\ args' = tokenIDsOrTokens
             /\ store' = r.store
             /\ out' = r.out
             /\ ret' = r.ret
             /\ calls' = r.calls
             /\ items' = r.items
  /\ pc' = "done"
  /\ op' = "delete"
  /\ store0' = store
  /\ errW' = <<>>
  /\ UNCHANGED now

\* the rendering of one token, as RunListTokens calls it for each token
FormatHuman ==
  /\ pc = "idle"
  /\ \E token \in FormatTokens :
       /\ args' = token
       /\ out' = <<humanReadableBootstrapToken(token, now)>>
  /\ pc' = "done"
  /\ op' = "format"
  /\ store0' = store
  /\ errW' = <<>>
  /\ ret' = Nil
  /\ calls' = <<>>
  /\ items' = <<>>
  /\ UNCHANGED <<store, now>>

\* the command's process ends; the next command starts afresh
Exit ==
  /\ pc = "done"
  /\ pc' = "idle"
  /\ op' = "none"
  /\ args' = <<>>
  /\ store0' = store
  /\ out' = <<>>
  /\ errW' = <<>>
  /\ ret' = Nil
  /\ calls' = <<>>
  /\ items' = <<>>
  /\ UNCHANGED <<store, now>>

\* an hour passes
Tick ==
  /\ pc = "idle"
  /\ now < MaxTime
  /\ now' = now + 1
  /\ UNCHANGED <<store, pc, op, args, store0, out, errW, ret, calls, items>>

Next == CreateToken \/ ListTokens \/ DeleteTokens \/ FormatHuman \/ Exit \/ Tick

Spec == Init /\ [][Next]_vars

\* ------------------------------------------------------------ properties
Done(o) == pc = "done" /\ op = o

\* an argument of "token delete" of one of the two accepted forms
Deletable(a) == IsValidBootstrapTokenID(a) \/ NewBootstrapTokenString(a).err = NoError

\* the name of the Secret an accepted argument stands for: bootstrap-token-
\* and the first six characters
ArgSecretName(a) == "bootstrap-token-" \o SubSeq(a, 1, IDLen)

Failed(k) == k \in DOMAIN items /\ items[k].err # NoError

\* the token "token create" stores: the given one, or the generated one
CreatedToken == IF args.initCfg.Token = NoToken THEN args.gen ELSE args.initCfg.Token

GoodSecret(secret) == BootstrapTokenFromSecret(secret).err = NoError

C2_ErrorIffAnItemFailed ==
  Done("delete") =>
    /\ ret = Nil <=>
         /\ \A i \in DOMAIN args : Deletable(args[i])
         /\ Len(calls) = Len(args)
         /\ \A c \in DOMAIN calls : calls[c].item = c /\ calls[c].err = NoError
    /\ (\E k \in DOMAIN args : Failed(k)) => ret.kind # NoError
    /\ ret.kind # NoError => Failed(Len(items)) /\ ret.kind = items[Len(items)].err

\* C2's case: the first argument was deleted, the second failed, and the
\* command returned an error.
C2_Witness ==
  /\ Done("delete")
  /\ Len(args) = 2
  /\ Len(items) = 2
  /\ items[1].err = NoError
  /\ Failed(2)
  /\ ret.kind # NoError

\* C3: when the List call succeeds RunListTokens returns nil; it writes the
\* header and one row for every Secret that decodes, beginning with its
\* token, wherever a Secret that does not decode stands in the list, and one
\* error to errW for every Secret that does not decode.
C3_ListToleratesBadRecords ==
  Done("list") /\ calls[1].err = NoError =>
    /\ ret = Nil
    /\ Len(out) = 1 + Cardinality({i \in DOMAIN args : GoodSecret(args[i])})
    /\ Len(errW) = Cardinality({i \in DOMAIN args : ~GoodSecret(args[i])})
    /\ \A i \in DOMAIN args :
         IF GoodSecret(args[i])
         THEN \E k \in 2..Len(out) :
                HasPrefix(out[k], args[i].data["token-id"] \o "." \o args[i].data["token-secret"])
         ELSE \E e \in DOMAIN errW : Contains(errW[e], args[i].name)

\* C3's case: the first Secret listed does not decode, the second does and
\* is rendered.
C3_Witness ==
  /\ Done("list")
  /\ Len(args) >= 2
  /\ ~GoodSecret(args[1])
  /\ GoodSecret(args[2])
  /\ ret = Nil
  /\ Len(out) >= 2
  /\ Len(errW) = 1

\* C4: no line that RunListTokens writes, and no row that
\* humanReadableBootstrapToken renders, contains the Secret of the token it
\* is for.
C4_SecretNeverListed ==
  /\ Done("list") =>
       \A i \in DOMAIN args :
         GoodSecret(args[i]) =>
           \A k \in DOMAIN out : ~Contains(out[k], args[i].data["token-secret"])
  /\ Done("format") => ~Contains(out[1], args.Token.Secret)

\* C5: when a Secret named bootstrap-token-<ID> exists for the ID of the
\* token to create, RunCreateToken returns an error, AlreadyExists when the
\* configuration is valid and the store answers; the store is unchanged and
\* nothing is printed.
C5_CreateNeverOverwrites ==
  Done("create") /\ NameExists(store0, BootstrapTokenSecretName(CreatedToken.ID)) =>
    /\ ret.kind # NoError
    /\ store = store0
    /\ out = <<>>
    /\ (calls # <<>> /\ calls[1].err # "CreateFailed") => ret.kind = "AlreadyExists"

\* C5's case: a token of the ID abcdef with another secret is created while
\* the Secret of abcdef.0123456789abcdef exists.
C5_Witness ==
  /\ Done("create")
  /\ args.initCfg.Token = TokA2
  /\ ret.kind = "AlreadyExists"
  /\ out = <<>>
  /\ \E r \in store : /\ r.name = BootstrapTokenSecretName(TokA2.ID)
                      /\ r.data["token-secret"] = TokA1.Secret

\* C6: RunDeleteTokens makes no Delete call for an argument that is neither
\* a token ID nor a token, and RunCreateToken makes no Create call for a
\* configuration that fails validation.
C6_InvalidInputNoStoreCall ==
  /\ Done("delete") =>
       \A i \in DOMAIN args :
         ~Deletable(args[i]) =>
           /\ \A c \in DOMAIN calls : calls[c].item # i
           /\ i \in DOMAIN items =>
                items[i].err = "InvalidFormat" /\ ret = Err("InvalidFormat", args[i])
  /\ Done("create") /\ ret.kind = "ValidationError" => calls = <<>> /\ store = store0

\* C6's case: the second argument does not parse; the only Delete call is the
\* first argument's.
C6_Witness ==
  /\ Done("delete")
  /\ Len(args) = 2
  /\ Deletable(args[1])
  /\ ~Deletable(args[2])
  /\ ret.kind = "InvalidFormat"
  /\ Len(calls) = 1

\* C7: every Delete call of RunDeleteTokens names bootstrap-token-<ID>, the
\* ID being the first six characters of the argument, a bare ID or a token
\* with any secret; an argument that succeeded removed the Secret of that
\* name.
C7_SameRecordForIDAndToken ==
  Done("delete") =>
    /\ \A c \in DOMAIN calls : calls[c].name = ArgSecretName(args[calls[c].item])
    /\ \A c, d \in DOMAIN calls :
         SubSeq(args[calls[c].item], 1, IDLen) = SubSeq(args[calls[d].item], 1, IDLen)
           => calls[c].name = calls[d].name
    /\ \A i \in DOMAIN items :
         items[i].err = NoError =>
           /\ NameExists(store0, ArgSecretName(args[i]))
           /\ ~NameExists(store, ArgSecretName(args[i]))

\* C7's case: a token whose secret is not the stored one deletes the Secret
\* of its ID, and the bare ID after it finds the Secret gone.
C7_Witness ==
  /\ Done("delete")
  /\ args = <<"abcdef.fedcba9876543210", "abcdef">>
  /\ \E r \in store0 : r.name = "bootstrap-token-abcdef" /\ r.data["token-secret"] = TokA1.Secret
  /\ items = <<Item(args[1], Nil), Item(args[2], Err("NotFound", "abcdef"))>>
  /\ ~NameExists(store, "bootstrap-token-abcdef")

\* C8: RunCreateToken of a configuration with groups and without the
\* authentication usage fails with ValidationError and writes no Secret.
C8_GroupsNeedAuthentication ==
  Done("create") /\ Len(args.initCfg.Groups) > 0
                 /\ UsageAuthentication \notin SeqToSet(args.initCfg.Usages) =>
    /\ ret.kind = "ValidationError"
    /\ store = store0
    /\ calls = <<>>
    /\ out = <<>>

\* C8's case: such a configuration, with a token whose ID is free.
C8_Witness ==
  /\ Done("create")
  /\ Len(args.initCfg.Groups) > 0
  /\ UsageAuthentication \notin SeqToSet(args.initCfg.Usages)
  /\ ~NameExists(store0, BootstrapTokenSecretName(CreatedToken.ID))
  /\ ret.kind = "ValidationError"

C10_RemovedIffReported ==
  Done("delete") =>
    /\ store \subseteq store0
    /\ \A r \in store0 :
         r \notin store <=>
           \E i \in DOMAIN out, j \in DOMAIN args :
             /\ Deletable(args[j])
             /\ r.name = ArgSecretName(args[j])
             /\ out[i] = "bootstrap token \"" \o SubSeq(args[j], 1, IDLen) \o "\" deleted"
    /\ Len(out) = Cardinality(store0 \ store)
    /\ \A r \in store0 :
         (\A j \in DOMAIN args : Deletable(args[j]) => r.name # ArgSecretName(args[j]))
           => r \in store
    /\ \A i \in DOMAIN out :
         out[i] = "bootstrap token \"" \o SubSeq(args[i], 1, IDLen) \o "\" deleted"

\* C10's case: the command returns an error after it removed a Secret and
\* wrote its line.
C10_Witness ==
  /\ Done("delete")
  /\ ret.kind # NoError
  /\ Len(out) = 1
  /\ Cardinality(store0 \ store) = 1

====
